---- MODULE Spec2Model ----
(***************************************************************************)
(* scripts/plot_metrics.py: read bench_sustained_metrics_round2.csv, parse *)
(* every row into six parallel series, render four line charts to fixed    *)
(* PNG names in the working directory.  The script is run as a process;    *)
(* the output images outlive the process, so a behaviour is a sequence of  *)
(* runs of the script over one working directory.                          *)
(*                                                                         *)
(* Text is a sequence of one-character strings.  A CSV field is            *)
(* [present, text]: csv.DictReader gives None (present = FALSE) for a      *)
(* column a short row does not reach.                                      *)
(***************************************************************************)
EXTENDS Integers, Sequences, FiniteSets, TLC

\* ---------------------------------------------------------------- bounds
MaxRows == 2
MaxRuns == 2

\* ------------------------------------------------------ program constants
CSV_PATH == "bench_sustained_metrics_round2.csv"
OUT_DIR == "."
MissingExitCode == 1

\* An uncaught exception ends the interpreter with status 1.
UncaughtExitCode == 1

\* The interpreter ends with status 0 when the module body runs off its end.
SuccessExitCode == 0

\* Exit status of a process that has not ended yet.
Running == -1

\* 1024.0*1024.0
BytesPerMB == 1048576

\* 1e6
NsPerMs == 1000000

\* ------------------------------------------------------------------ text
Digits == {"0", "1", "2", "3", "4", "5", "6", "7", "8", "9"}

DigitVal(c) ==
    CASE c = "0" -> 0 [] c = "1" -> 1 [] c = "2" -> 2 [] c = "3" -> 3
      [] c = "4" -> 4 [] c = "5" -> 5 [] c = "6" -> 6 [] c = "7" -> 7
      [] c = "8" -> 8 [] c = "9" -> 9

AllDigits(s) == \A i \in 1..Len(s) : s[i] \in Digits

RECURSIVE DecVal(_)
DecVal(s) ==
    IF s = <<>> THEN 0
    ELSE 10 * DecVal(SubSeq(s, 1, Len(s) - 1)) + DigitVal(s[Len(s)])

F(s) == [present |-> TRUE, text |-> s]
None == [present |-> FALSE, text |-> <<>>]

\* ------------------------------------------------------------ conversions
Ok(v) == [ok |-> TRUE, val |-> v, exc |-> "none"]
Raise(e) == [ok |-> FALSE, val |-> 0, exc |-> e]

\* int(x) for x a str or None: optional sign, then one or more digits.
PyInt(f) ==
    IF ~f.present THEN Raise("TypeError")
    ELSE LET s == f.text
             signed == s # <<>> /\ s[1] \in {"-", "+"}
             body == IF signed THEN Tail(s) ELSE s
         IN  IF body # <<>> /\ AllDigits(body)
             THEN Ok(IF signed /\ s[1] = "-" THEN 0 - DecVal(body) ELSE DecVal(body))
             ELSE Raise("ValueError")

\* A float that is an integer quotient: n / d = whole + frac / d.
TrueDiv(n, d) == [whole |-> n \div d, frac |-> n % d, den |-> d]

\* a float holding an integer value k (k.0)
FloatOf(k, d) == [whole |-> k, frac |-> 0, den |-> d]

ToMBWrongDivisor(n) == TrueDiv(n, 1000000)
ToMB(n) == TrueDiv(n, BytesPerMB)

ToMS(n) == TrueDiv(n, NsPerMs)

IsLeap(y) == y % 4 = 0 /\ (y % 100 # 0 \/ y % 400 = 0)

DaysIn(y, m) ==
    IF m = 2 THEN (IF IsLeap(y) THEN 29 ELSE 28)
    ELSE IF m \in {4, 6, 9, 11} THEN 30 ELSE 31

\* datetime.fromisoformat on "YYYY-MM-DD" or "YYYY-MM-DD?HH:MM:SS".
FromIsoFormat(f) ==
    IF ~f.present THEN Raise("TypeError")
    ELSE LET s == f.text
             num(a, b) == DecVal(SubSeq(s, a, b))
             isnum(a, b) == AllDigits(SubSeq(s, a, b))
             dateOk == /\ Len(s) >= 10
                       /\ isnum(1, 4) /\ s[5] = "-" /\ isnum(6, 7)
                       /\ s[8] = "-" /\ isnum(9, 10)
                       /\ num(1, 4) >= 1
                       /\ num(6, 7) \in 1..12
                       /\ num(9, 10) \in 1..DaysIn(num(1, 4), num(6, 7))
             timeOk == /\ Len(s) = 19
                       /\ isnum(12, 13) /\ s[14] = ":" /\ isnum(15, 16)
                       /\ s[17] = ":" /\ isnum(18, 19)
                       /\ num(12, 13) < 24 /\ num(15, 16) < 60 /\ num(18, 19) < 60
         IN  IF dateOk /\ Len(s) = 10
             THEN Ok([year |-> num(1, 4), month |-> num(6, 7), day |-> num(9, 10),
                      hour |-> 0, minute |-> 0, second |-> 0])
             ELSE IF dateOk /\ timeOk
             THEN Ok([year |-> num(1, 4), month |-> num(6, 7), day |-> num(9, 10),
                      hour |-> num(12, 13), minute |-> num(15, 16),
                      second |-> num(18, 19)])
             ELSE Raise("ValueError")

\* ------------------------------------------------------------- the input
T0 == <<"2","0","2","4","-","0","1","-","0","1","T","0","0",":","0","0",":","0","0">>
T1 == <<"2","0","2","4","-","0","1","-","0","1","T","0","0",":","0","0",":","0","5">>

\* Two well-formed records.
RowA ==
    [time |-> F(T0),
     alloc |-> F(<<"1","0","4","8","5","7","6">>),
     heap_alloc |-> F(<<"2","0","9","7","1","5","2">>),
     num_goroutine |-> F(<<"7">>),
     num_gc |-> F(<<"3">>),
     pause_total_ns |-> F(<<"1","0","0","0","0","0","0">>)]

RowB ==
    [time |-> F(T1),
     alloc |-> F(<<"0">>),
     heap_alloc |-> F(<<"1","5","7","2","8","6","4">>),
     num_goroutine |-> F(<<"1","2">>),
     num_gc |-> F(<<"4">>),
     pause_total_ns |-> F(<<"2","5","0","0","0","0","0">>)]

GoodRows == {RowA, RowB}

\* Records with one field that does not convert.
BadRows ==
    {[RowA EXCEPT !.time = F(<<"n","o","t","-","a","-","t","i","m","e">>)],
     [RowA EXCEPT !.alloc = F(<<"a","b","c">>)],
     [RowB EXCEPT !.heap_alloc = None],
     [RowA EXCEPT !.num_goroutine = F(<<"1",".","5">>)],
     [RowB EXCEPT !.num_gc = F(<<>>)],
     [RowA EXCEPT !.pause_total_ns = None]}

Rows == GoodRows \cup BadRows

RowSeqs == UNION {[1..n -> Rows] : n \in 0..MaxRows}

\* ------------------------------------------------------- the output files
OutNames == {"bench_alloc.png", "bench_goroutines.png", "bench_numgc.png",
             "bench_pause.png"}

NoFigure ==
    [figsize |-> <<0, 0>>, lines |-> <<>>, xlabel |-> "", ylabel |-> "",
     title |-> "", legend |-> FALSE, tight |-> FALSE]

\* A file of the working directory: absent, or its data (a sequence of images).
Absent == [exists |-> FALSE, data |-> <<>>]
OldFile == [exists |-> TRUE, data |-> <<NoFigure>>]

\* ------------------------------------------------------------------ state
VARIABLES
    csvExists,   \* the input path exists
    rows,        \* the records csv.DictReader yields from the input
    files,       \* the four output paths of the working directory
    runs,        \* number of the current run of the script
    pc,          \* the statement the run is at
    chart,       \* the chart block the run is in (0 before rendering)
    series,      \* times, alloc, heap_alloc, goroutines, num_gc, pause_ns
    nread,       \* records the for loop has taken from the reader
    fileOpen,    \* the handle f of the with block is open
    figs,        \* pyplot's open figures, the current one last
    stdout,      \* lines printed by this run
    err,         \* the uncaught exception that ended the run, or "none"
    exitCode,    \* exit status of the run, Running until it ends
    startFiles,  \* history: files when the current run started
    written,     \* history: output names saved by the current run, in order
    prev         \* history: how the previous run ended

vars == <<csvExists, rows, files, runs, pc, chart, series, nread, fileOpen,
          figs, stdout, err, exitCode, startFiles, written, prev>>

EmptySeries ==
    [times |-> <<>>, alloc |-> <<>>, heap_alloc |-> <<>>, goroutines |-> <<>>,
     num_gc |-> <<>>, pause_ns |-> <<>>]

NoPrev ==
    [valid |-> FALSE, pc |-> "", exitCode |-> Running, stdout |-> <<>>,
     err |-> "", nread |-> 0, files |-> [n \in OutNames |-> Absent],
     written |-> <<>>]

Init ==
    /\ csvExists \in BOOLEAN
    /\ rows \in (IF csvExists THEN RowSeqs ELSE {<<>>})
    /\ files \in [OutNames -> {Absent, OldFile}]
    /\ runs = 1
    /\ pc = "check"
    /\ chart = 0
    /\ series = EmptySeries
    /\ nread = 0
    /\ fileOpen = FALSE
    /\ figs = <<>>
    /\ stdout = <<>>
    /\ err = "none"
    /\ exitCode = Running
    /\ startFiles = files
    /\ written = <<>>
    /\ prev = NoPrev

\* ------------------------------------------------------- the parsing loop
\* The loop body is six statements; statement i converts one column and
\* appends the result to one list.
Column(i) ==
    CASE i = 1 -> "time" [] i = 2 -> "alloc" [] i = 3 -> "heap_alloc"
      [] i = 4 -> "num_goroutine" [] i = 5 -> "num_gc" [] i = 6 -> "pause_total_ns"

ListOf(i) ==
    CASE i = 1 -> "times" [] i = 2 -> "alloc" [] i = 3 -> "heap_alloc"
      [] i = 4 -> "goroutines" [] i = 5 -> "num_gc" [] i = 6 -> "pause_ns"

Lists == {ListOf(i) : i \in 1..6}

\* The value statement i computes from the record, or the exception it raises.
Conv(i, row) ==
    IF i = 1 THEN FromIsoFormat(row.time)
    ELSE LET n == PyInt(row[Column(i)])
         IN  IF ~n.ok THEN n
             ELSE IF i \in {2, 3} THEN Ok(ToMB(n.val))
             ELSE IF i = 6 THEN Ok(ToMS(n.val))
             ELSE n

PrependTo(list, v) == <<v>> \o list
AppendTo(list, v) == Append(list, v)

\* Statements i..6 of the loop body, in order; the first exception ends it
\* and leaves what the earlier statements appended.
RECURSIVE RunBody(_, _, _)
RunBody(row, S, i) ==
    IF i > 6 THEN [series |-> S, exc |-> "none"]
    ELSE LET r == Conv(i, row)
         IN  IF ~r.ok THEN [series |-> S, exc |-> r.exc]
             ELSE RunBody(row, [S EXCEPT ![ListOf(i)] = AppendTo(@, r.val)], i + 1)

LoopStepSkipBad(row, S) ==
    LET r == RunBody(row, S, 1)
    IN  IF r.exc = "none" THEN r ELSE [series |-> S, exc |-> "none"]

LoopStepKeepGoing(row, S) == [RunBody(row, S, 1) EXCEPT !.exc = "none"]

LoopStep(row, S) == RunBody(row, S, 1)

\* ------------------------------------------------------------- the charts
NumCharts == 4

ChartNameCopyPaste(k) ==
    CASE k = 1 -> "bench_alloc.png" [] k = 2 -> "bench_goroutines.png"
      [] k = 3 -> "bench_goroutines.png" [] k = 4 -> "bench_pause.png"

ChartName(k) ==
    CASE k = 1 -> "bench_alloc.png" [] k = 2 -> "bench_goroutines.png"
      [] k = 3 -> "bench_numgc.png" [] k = 4 -> "bench_pause.png"

OsPathJoin(d, n) == <<d, n>>

\* the directory entry a joined path names, relative to the working directory
Entry(p) == p[2]

ChartPath(k) == OsPathJoin(OUT_DIR, ChartName(k))

FigSize(k) == IF k = 1 THEN <<12, 6>> ELSE <<12, 4>>

Line(x, y, label) == [x |-> x, y |-> y, label |-> label]

\* plt.plot .. plt.tight_layout of block k on figure fig
Draw(k, fig, S) ==
    CASE k = 1 ->
           [fig EXCEPT !.lines = @ \o <<Line(S.times, S.alloc, "Alloc (MB)"),
                                       Line(S.times, S.heap_alloc, "HeapAlloc (MB)")>>,
                       !.xlabel = "Time", !.ylabel = "MB",
                       !.title = "Alloc / HeapAlloc over time",
                       !.legend = TRUE, !.tight = TRUE]
      [] k = 2 ->
           [fig EXCEPT !.lines = @ \o <<Line(S.times, S.goroutines, "Goroutines")>>,
                       !.xlabel = "Time", !.ylabel = "Count",
                       !.title = "Goroutines over time", !.tight = TRUE]
      [] k = 3 ->
           [fig EXCEPT !.lines = @ \o <<Line(S.times, S.num_gc, "NumGC")>>,
                       !.xlabel = "Time", !.ylabel = "Count",
                       !.title = "NumGC over time", !.tight = TRUE]
      [] k = 4 ->
           [fig EXCEPT !.lines = @ \o <<Line(S.times, S.pause_ns, "PauseTotal (ms)")>>,
                       !.xlabel = "Time", !.ylabel = "ms",
                       !.title = "GC PauseTotal over time", !.tight = TRUE]

\* plt.figure: a new figure becomes the current one
PltFigure(fs, size) == Append(fs, [NoFigure EXCEPT !.figsize = size])

PltCloseLeaks(fs) == fs
\* plt.close(): the current figure is destroyed
PltClose(fs) == SubSeq(fs, 1, Len(fs) - 1)

SavedAppending(old, fig) == [exists |-> TRUE, data |-> old.data \o <<fig>>]
\* savefig opens the path for writing: the file is created or truncated
Saved(old, fig) == [exists |-> TRUE, data |-> <<fig>>]

\* The statements of one chart block, in program order.
RenderOrderPrintFirst == <<"figure", "plot", "print", "savefig", "close">>
RenderOrder == <<"figure", "plot", "savefig", "close", "print">>

Pos(step) == CHOOSE i \in 1..Len(RenderOrder) : RenderOrder[i] = step

Terminal == {"done", "aborted", "exited"}

\* ------------------------------------------------------------- operations
OsPathExists(p) == p = CSV_PATH /\ csvExists

InputMissingNever == FALSE
InputMissing == ~OsPathExists(CSV_PATH)

\* control leaves a statement of a chart block
Advance ==
    IF Pos(pc) < Len(RenderOrder)
    THEN /\ pc' = RenderOrder[Pos(pc) + 1]
         /\ UNCHANGED <<chart, exitCode>>
    ELSE IF chart < NumCharts
    THEN /\ pc' = RenderOrder[1]
         /\ chart' = chart + 1
         /\ UNCHANGED exitCode
    ELSE /\ pc' = "done"
         /\ exitCode' = SuccessExitCode
         /\ UNCHANGED chart

\* an exception nobody catches: traceback, exit
Die(e) ==
    /\ pc' = "aborted"
    /\ err' = e
    /\ exitCode' = UncaughtExitCode

Env == <<csvExists, rows, runs, startFiles, prev>>

\* lines 10-19
Check ==
    /\ pc = "check"
    /\ IF InputMissing
       THEN /\ stdout' = Append(stdout, <<"CSV not found: ", CSV_PATH>>)
            /\ pc' = "exited"
            /\ exitCode' = MissingExitCode
            /\ UNCHANGED series
       ELSE /\ series' = EmptySeries
            /\ pc' = "open"
            /\ UNCHANGED <<stdout, exitCode>>
    /\ UNCHANGED <<Env, files, chart, nread, fileOpen, figs, err, written>>

\* lines 21-22
Open ==
    /\ pc = "open"
    /\ IF OsPathExists(CSV_PATH)
       THEN /\ fileOpen' = TRUE
            /\ pc' = "loop"
            /\ UNCHANGED <<err, exitCode>>
       ELSE /\ Die("FileNotFoundError")
            /\ UNCHANGED fileOpen
    /\ UNCHANGED <<Env, files, chart, series, nread, figs, stdout, written>>

\* lines 23-31, one record; the with block closes f when an exception leaves it
ParseRow ==
    /\ pc = "loop"
    /\ nread < Len(rows)
    /\ LET r == LoopStep(rows[nread + 1], series)
       IN  /\ nread' = nread + 1
           /\ series' = r.series
           /\ IF r.exc = "none"
              THEN UNCHANGED <<pc, err, exitCode, fileOpen>>
              ELSE /\ Die(r.exc)
                   /\ fileOpen' = FALSE
    /\ UNCHANGED <<Env, files, chart, figs, stdout, written>>

\* the reader is exhausted: the with block ends, line 34
EndLoop ==
    /\ pc = "loop"
    /\ nread = Len(rows)
    /\ fileOpen' = FALSE
    /\ chart' = 1
    /\ pc' = RenderOrder[1]
    /\ UNCHANGED <<Env, files, series, nread, figs, stdout, err, exitCode, written>>

\* plt.figure(figsize=...)
Figure ==
    /\ pc = "figure"
    /\ figs' = PltFigure(figs, FigSize(chart))
    /\ Advance
    /\ UNCHANGED <<Env, files, series, nread, fileOpen, stdout, err, written>>

\* plt.plot .. plt.tight_layout, on the current figure
Plot ==
    /\ pc = "plot"
    /\ figs' = [figs EXCEPT ![Len(figs)] = Draw(chart, @, series)]
    /\ Advance
    /\ UNCHANGED <<Env, files, series, nread, fileOpen, stdout, err, written>>

\* plt.savefig(path): the current figure goes to the file
Savefig ==
    /\ pc = "savefig"
    /\ LET n == Entry(ChartPath(chart))
       IN  /\ files' = [files EXCEPT ![n] = Saved(@, figs[Len(figs)])]
           /\ written' = Append(written, n)
    /\ Advance
    /\ UNCHANGED <<Env, series, nread, fileOpen, figs, stdout, err>>

\* plt.close()
Close ==
    /\ pc = "close"
    /\ figs' = PltClose(figs)
    /\ Advance
    /\ UNCHANGED <<Env, files, series, nread, fileOpen, stdout, err, written>>

\* print('wrote', path)
PrintWrote ==
    /\ pc = "print"
    /\ stdout' = Append(stdout, <<"wrote", ChartPath(chart)>>)
    /\ Advance
    /\ UNCHANGED <<Env, files, series, nread, fileOpen, figs, err, written>>

\* the script is started again in the same working directory
Rerun ==
    /\ pc \in Terminal
    /\ runs < MaxRuns
    /\ runs' = runs + 1
    /\ prev' = [valid |-> TRUE, pc |-> pc, exitCode |-> exitCode, stdout |-> stdout,
                err |-> err, nread |-> nread, files |-> files, written |-> written]
    /\ startFiles' = files
    /\ pc' = "check"
    /\ chart' = 0
    /\ series' = EmptySeries
    /\ nread' = 0
    /\ fileOpen' = FALSE
    /\ figs' = <<>>
    /\ stdout' = <<>>
    /\ err' = "none"
    /\ exitCode' = Running
    /\ written' = <<>>
    /\ UNCHANGED <<csvExists, rows, files>>

\* the plotting library raises while a chart is built or saved
RenderFail ==
    /\ pc \in {"figure", "plot", "savefig"}
    /\ Die("RenderError")
    /\ UNCHANGED <<Env, files, chart, series, nread, fileOpen, figs, stdout, written>>

Next ==
    \/ Check
    \/ Open
    \/ ParseRow
    \/ EndLoop
    \/ Figure
    \/ Plot
    \/ Savefig
    \/ Close
    \/ PrintWrote
    \/ Rerun

Spec == Init /\ [][Next]_vars

NextFail == Next \/ RenderFail

SpecFail == Init /\ [][NextFail]_vars

\* ----------------------------------------------------------- definitions
\* used by the properties

WellFormedRow(row) == \A i \in 1..6 : Conv(i, row).ok

WellFormed == \A j \in 1..Len(rows) : WellFormedRow(rows[j])

\* index of the first record with a field that does not convert
FirstBad == CHOOSE j \in 1..Len(rows) :
                /\ ~WellFormedRow(rows[j])
                /\ \A h \in 1..(j - 1) : WellFormedRow(rows[h])

\* the exception the first failing statement of a record raises
FirstExc(row) ==
    LET i == CHOOSE c \in 1..6 : ~Conv(c, row).ok /\ \A b \in 1..(c - 1) : Conv(b, row).ok
    IN  Conv(i, row).exc

Expected == <<"bench_alloc.png", "bench_goroutines.png", "bench_numgc.png",
              "bench_pause.png">>

WroteLine(n) == <<"wrote", <<".", n>>>>

NumWrote == Cardinality({i \in 1..Len(stdout) : stdout[i][1] = "wrote"})

Rendering == pc \in {"figure", "plot", "savefig", "close", "print"}

Held == (IF fileOpen THEN 1 ELSE 0) + Len(figs)

\* records whose loop body ran to its end
RowsParsed == IF pc = "aborted" /\ chart = 0 /\ nread > 0 THEN nread - 1 ELSE nread

\* ------------------------------------------------------------- properties

\* C1: when the input path does not exist, the run prints exactly
\* 'CSV not found: <path>', ends with a non-zero exit code, and leaves the four
\* output images as they were: no file opened, no row parsed, no chart
\* rendered, no 'wrote' line.
C1_MissingInput ==
    ~csvExists =>
        /\ files = startFiles
        /\ ~fileOpen /\ nread = 0 /\ series = EmptySeries
        /\ figs = <<>> /\ written = <<>> /\ NumWrote = 0
        /\ pc \in {"check", "exited"}
        /\ pc = "exited" =>
              /\ stdout = << <<"CSV not found: ", "bench_sustained_metrics_round2.csv">> >>
              /\ exitCode # 0 /\ exitCode # Running

C1_Witness ==
    /\ ~csvExists /\ pc = "exited" /\ runs = 2
    /\ files["bench_alloc.png"].exists /\ ~files["bench_pause.png"].exists

\* C2: an input with a record that fails conversion aborts the run at the first
\* such record: later records are never parsed, no output file is created or
\* modified, no 'wrote' line is printed, and a second run on the same input
\* ends the same way at the same record.
C2_MalformedAborts ==
    (csvExists /\ ~WellFormed) =>
        /\ nread <= FirstBad
        /\ nread = FirstBad <=> pc = "aborted"
        /\ ~Rendering /\ pc # "done" /\ pc # "exited"
        /\ files = startFiles /\ written = <<>> /\ stdout = <<>>
        /\ pc = "aborted" =>
              /\ err = FirstExc(rows[FirstBad])
              /\ exitCode # 0 /\ exitCode # Running
              /\ prev.valid =>
                    /\ prev.pc = pc /\ prev.err = err /\ prev.nread = nread
                    /\ prev.exitCode = exitCode /\ prev.stdout = stdout
                    /\ prev.files = files /\ prev.written = written

C2_Witness ==
    /\ csvExists /\ Len(rows) = 2 /\ ~WellFormedRow(rows[1])
    /\ pc = "aborted" /\ prev.valid /\ nread = 1
    /\ files["bench_alloc.png"].exists /\ ~files["bench_pause.png"].exists

\* C3: for a well-formed input of N >= 1 records, when parsing has finished
\* every series has length N and element i of each series is the conversion of
\* record i (file order, nothing dropped, duplicated or re-sorted).
C3_SeriesAligned ==
    (csvExists /\ WellFormed /\ Len(rows) >= 1 /\ (Rendering \/ pc = "done")) =>
        \A c \in 1..6 :
            /\ Len(series[ListOf(c)]) = Len(rows)
            /\ \A i \in 1..Len(rows) : series[ListOf(c)][i] = Conv(c, rows[i]).val

C3_Witness ==
    /\ csvExists /\ WellFormed /\ Len(rows) = 2 /\ rows[1] # rows[2]
    /\ pc = "done"

\* C4: for a well-formed input the run writes exactly the four files
\* bench_alloc.png, bench_goroutines.png, bench_numgc.png, bench_pause.png in
\* that order, each once, and prints exactly four 'wrote <path>' lines, one per
\* file in the same order, each naming the file just written.
C4_FourFilesFourLines ==
    (csvExists /\ WellFormed) =>
        /\ Len(written) <= 4
        /\ \A k \in 1..Len(written) : written[k] = Expected[k]
        /\ Len(stdout) <= Len(written)
        /\ \A k \in 1..Len(stdout) : stdout[k] = WroteLine(written[k])
        /\ \A n \in OutNames :
              (\A k \in 1..Len(written) : written[k] # n) => files[n] = startFiles[n]
        /\ pc = "done" =>
              /\ Len(written) = 4 /\ Len(stdout) = 4
              /\ \A n \in OutNames : files[n].exists /\ files[n].data # <<>>

C4_Witness ==
    /\ csvExists /\ WellFormed /\ Len(rows) = 2 /\ pc = "done" /\ runs = 1
    /\ \A n \in OutNames : ~startFiles[n].exists

C6_RerunSameFiles ==
    (csvExists /\ WellFormed /\ prev.valid /\ pc = "done") =>
        /\ prev.pc = "done" /\ prev.exitCode = 0 /\ exitCode = 0
        /\ {n \in OutNames : files[n].exists} = OutNames
        /\ files = prev.files
        /\ \A n \in OutNames : Len(files[n].data) = 1
        /\ written = prev.written /\ stdout = prev.stdout

C6_Witness ==
    /\ csvExists /\ WellFormed /\ Len(rows) >= 1 /\ runs = 2 /\ pc = "done"

\* C7: for every parsed record i, allocMB[i] = alloc_i / 1048576,
\* heapAllocMB[i] = heap_alloc_i / 1048576, pauseMS[i] = pause_total_ns_i /
\* 1000000, and goroutines[i], numGC[i] are the integer fields unchanged;
\* 1048576 bytes give 1.0, 0 bytes give 0.0, 1000000 ns give 1.0.
Quotient(x, n, d) ==
    /\ x.den = d /\ x.frac \in 0..(d - 1)
    /\ x.whole * d + x.frac = n
    /\ (n = d => x = [whole |-> 1, frac |-> 0, den |-> d])
    /\ (n = 0 => x = [whole |-> 0, frac |-> 0, den |-> d])

C7_Conversions ==
    /\ \A i \in 1..Len(series.alloc) :
          Quotient(series.alloc[i], PyInt(rows[i].alloc).val, 1048576)
    /\ \A i \in 1..Len(series.heap_alloc) :
          Quotient(series.heap_alloc[i], PyInt(rows[i].heap_alloc).val, 1048576)
    /\ \A i \in 1..Len(series.pause_ns) :
          Quotient(series.pause_ns[i], PyInt(rows[i].pause_total_ns).val, 1000000)
    /\ \A i \in 1..Len(series.goroutines) :
          series.goroutines[i] = PyInt(rows[i].num_goroutine).val
    /\ \A i \in 1..Len(series.num_gc) :
          series.num_gc[i] = PyInt(rows[i].num_gc).val

C7_Witness ==
    /\ pc = "done" /\ Len(rows) = 2
    /\ series.alloc = <<[whole |-> 1, frac |-> 0, den |-> 1048576],
                        [whole |-> 0, frac |-> 0, den |-> 1048576]>>
    /\ series.heap_alloc[2] = [whole |-> 1, frac |-> 524288, den |-> 1048576]
    /\ series.pause_ns[1] = [whole |-> 1, frac |-> 0, den |-> 1000000]
    /\ series.goroutines = <<7, 12>>

\* C8: at most one scoped resource is held at any time: the input handle is
\* closed before the first canvas is created, each canvas is closed before the
\* next is created, and at the end of a run (success, missing input, malformed
\* record) neither the handle nor a canvas is held.
C8_OneResource ==
    /\ Held <= 1
    /\ pc = "figure" => Held = 0
    /\ Rendering => ~fileOpen
    /\ pc \in Terminal => Held = 0

C8_Witness ==
    /\ pc = "savefig" /\ chart = 2 /\ Len(figs) = 1 /\ ~fileOpen
    /\ Len(written) = 1

\* C9: in every state of the parser, the state in which a run aborts on a
\* malformed record included, all series have the same length, the number of
\* records parsed so far: a record whose conversion fails part-way adds an
\* element to no series.
C9_EqualLengths ==
    \A L \in Lists : Len(series[L]) = RowsParsed

====
